---- MODULE Spec2Model ----
(***************************************************************************)
(* A model of src/models/sarima.py: the SARIMAModel strategy class.  One   *)
(* instance is modelled: its attributes, the files its save_model has      *)
(* written, and the outcome of the last call made on it.  The statistics   *)
(* libraries (pmdarima, statsmodels) are modelled by their interface: a    *)
(* fit that succeeds or raises, and predictions identified by the          *)
(* zero-based position in the fitted series that each one is made for.     *)
(***************************************************************************)
EXTENDS Integers, Sequences, FiniteSets, TLC

\* ------------------------------------------------------------------ bounds
MaxLen  == 2      \* rows of a dataset
MaxCols == 3      \* columns of a dataset
MaxDays == 3      \* forecast horizon

\* ------------------------------------------------------- hyperparameters
Keys == {"AUTO_PARAMS", "TREND_P", "TREND_D", "TREND_Q",
         "SEASONAL_P", "SEASONAL_D", "SEASONAL_Q", "M"}

\* the defaults of __init__
DefaultAutoParams == FALSE
DefaultTrendP    == 10
DefaultTrendD    == 2
DefaultTrendQ    == 0
DefaultSeasonalP == 5
DefaultSeasonalD == 2
DefaultSeasonalQ == 0
DefaultM         == 12

\* A value a configuration may give for each numeric key, each different
\* from the key's default and from the values given for its neighbours.
GivenValue(k) ==
    CASE k = "TREND_P"    -> 1
      [] k = "TREND_D"    -> 0
      [] k = "TREND_Q"    -> 3
      [] k = "SEASONAL_P" -> 4
      [] k = "SEASONAL_D" -> 1
      [] k = "SEASONAL_Q" -> 6
      [] k = "M"          -> 7

\* The key sets of the configurations tried: no key given, one key given,
\* every key given.
KeySets == {S \in SUBSET Keys : Cardinality(S) \in {0, 1, Cardinality(Keys)}}

\* The configurations (dicts) handed to the constructor.
HParams ==
    {[k \in S |-> IF k = "AUTO_PARAMS" THEN a ELSE GivenValue(k)] :
        S \in KeySets, a \in BOOLEAN}

\* dict.get(key, default), mutated: the default whatever the dict holds
dict_get_ignores_dict(d, key, default) == default

\* dict.get(key, default)
dict_get(d, key, default) == IF key \in DOMAIN d THEN d[key] ELSE default

\* ------------------------------------------------------------- strings
\* A string is a sequence of tokens; concatenation is \o.
name == <<"SARIMA">>
PKL  == <<".pkl">>
SEP  == "/"

SaveDirs   == {<<"out">>, <<"out", SEP>>, <<SEP, "tmp", SEP, "m">>}
TrainDates == {<<>>, <<"20200101">>}

\* os.path.join(a, b) of posixpath
path_join(a, b) ==
    IF b # <<>> /\ Head(b) = SEP THEN b
    ELSE IF a = <<>> \/ a[Len(a)] = SEP THEN a \o b
    ELSE a \o <<SEP>> \o b

\* ----------------------------------------------------------- datasets
\* A DataFrame, by what the class reads of it: its column count
\* (shape[1]), whether it has a 'Date' (or 'ds') column, its row count.
Datasets == [cols : 1..MaxCols, hasDate : BOOLEAN, rows : 1..MaxLen]

\* the frames evaluate is given: two columns each
TrainSets == [cols : {2}, hasDate : BOOLEAN, rows : 1..MaxLen]
TestSets  == [cols : {2}, hasDate : BOOLEAN, rows : 0..MaxLen]

RecentData == {"None", "recent"}

NaN == -1

\* ------------------------------------------------------ the fitted model
NoModel == [kind |-> "None"]

\* smt.SARIMAX(series, order, seasonal_order, ...).fit(): the results handle
SARIMAXResults(series, order, seasonal_order) ==
    [kind |-> "SARIMAXResults", order |-> order,
     seasonal_order |-> seasonal_order, nobs |-> series.rows,
     enforce_stationarity |-> FALSE, enforce_invertibility |-> FALSE]

\* the truth value of self.model
truthy(mdl) == mdl.kind # "None"

\* results.fittedvalues: one value per observation of the fitted series
fittedvalues(mdl) == [i \in 1..mdl.nobs |-> i - 1]

\* results.predict(start, end): the positions start..end; statsmodels
\* raises ValueError when end < start
predict(mdl, start, end) == [i \in 1..(end - start + 1) |-> start + i - 1]

\* results.forecast(steps): the steps positions after the fitted series
results_forecast(mdl, steps) == [i \in 1..steps |-> mdl.nobs + i - 1]

\* ------------------------------------------------------------ outcomes
OK == "ok"
NoOut == [kind |-> "None"]

VARIABLES
    hparams,        \* the dict the constructor was given
    auto_params, trend_p, trend_d, trend_q,
    seasonal_p, seasonal_d, seasonal_q, m,
    train_date,     \* the base strategy's recorded training date
    model,          \* self.model
    files,          \* the paths written so far
    op,             \* the last call: its name,
    args,           \*   its arguments,
    err,            \*   the exception it raised (OK when none),
    out,            \*   what it returned,
    written,        \*   the paths it wrote, in order
    df_forecast,    \*   the frame it handed to evaluate_forecast
    fit_succeeded   \* whether some fit has returned normally

hyper == <<auto_params, trend_p, trend_d, trend_q,
           seasonal_p, seasonal_d, seasonal_q, m>>
vars == <<hparams, hyper, train_date, model, files, op, args, err, out,
          written, df_forecast, fit_succeeded>>

\* The attributes __init__ assigns on the instance.
OwnAttrs == {"auto_params", "trend_p", "trend_d", "trend_q",
             "seasonal_p", "seasonal_d", "seasonal_q", "m"}
\* The attributes the base strategy's constructor assigns.
BaseAttrs == {"model", "univariate", "name", "train_date", "log_dir"}
InstanceAttrs == OwnAttrs \cup BaseAttrs

\* SARIMAModel(hparams): the state after construction
Init ==
    /\ hparams \in HParams
    /\ auto_params = dict_get(hparams, "AUTO_PARAMS", DefaultAutoParams)
    /\ trend_p = dict_get(hparams, "TREND_P", DefaultTrendP)
    /\ trend_d = dict_get(hparams, "TREND_D", DefaultTrendD)
    /\ trend_q = dict_get(hparams, "TREND_Q", DefaultTrendQ)
    /\ seasonal_p = dict_get(hparams, "SEASONAL_P", DefaultSeasonalP)
    /\ seasonal_d = dict_get(hparams, "SEASONAL_D", DefaultSeasonalD)
    /\ seasonal_q = dict_get(hparams, "SEASONAL_Q", DefaultSeasonalQ)
    /\ m = dict_get(hparams, "M", DefaultM)
    /\ train_date \in TrainDates
    /\ model = NoModel
    /\ files = {}
    /\ op = "__init__"
    /\ args = [hparams |-> hparams]
    /\ err = OK
    /\ out = NoOut
    /\ written = <<>>
    /\ df_forecast = NoOut
    /\ fit_succeeded = FALSE

\* ------------------------------------------------------------------- fit
\* the fitted models pmdarima.auto_arima may return: their orders
BestModels ==
    {[order |-> <<0, 1, 0>>, seasonal_order |-> <<0, 0, 0, m>>],
     [order |-> <<1, 0, 1>>, seasonal_order |-> <<1, 1, 0, m>>]}

\* the shape test, mutated: only fewer than two columns are refused
shape_ok_at_least_2(dataset) == dataset.cols >= 2

\* dataset.shape[1] != 2, negated
shape_ok(dataset) == dataset.cols = 2

\* the explicit order, mutated: d and q exchanged
order_d_q_swapped == <<trend_p, trend_q, trend_d>>

\* the explicit (p, d, q)
explicit_order == <<trend_p, trend_d, trend_q>>

\* the explicit (P, D, Q, s)
explicit_seasonal_order == <<seasonal_p, seasonal_d, seasonal_q, m>>

\* the estimator call, mutated: a failed estimation leaves the instance
\* without a model
estimate_clears_on_failure(series, order, seasonal_order) ==
    {[err |-> OK, model |-> SARIMAXResults(series, order, seasonal_order)],
     [err |-> "EstimatorError", model |-> NoModel]}

\* self.model = smt.SARIMAX(...).fit(disp=1): the estimator returns, and
\* the handle is assigned, or it raises, and nothing is assigned
estimate(series, order, seasonal_order) ==
    {[err |-> OK, model |-> SARIMAXResults(series, order, seasonal_order)],
     [err |-> "EstimatorError", model |-> model]}

\* fit(dataset): the outcomes it may have, each the exception raised (OK
\* when none) and self.model afterwards
fit_call(dataset) ==
    IF ~shape_ok(dataset)
    THEN {[err |-> "InputShapeException", model |-> model]}
    ELSE IF ~dataset.hasDate                     \* set_index('ds')
    THEN {[err |-> "KeyError", model |-> model]}
    ELSE IF auto_params
    THEN IF ~({"p_max", "q_max", "d_max"} \subseteq InstanceAttrs)
         THEN {[err |-> "AttributeError", model |-> model]}
         ELSE UNION {estimate(dataset, b.order, b.seasonal_order) :
                        b \in BestModels}
    ELSE estimate(dataset, explicit_order, explicit_seasonal_order)

Fit ==
    \E dataset \in Datasets :
        \E r \in fit_call(dataset) :
            /\ op' = "fit"
            /\ args' = [dataset |-> dataset]
            /\ err' = r.err
            /\ out' = NoOut
            /\ model' = r.model
            /\ fit_succeeded' = (fit_succeeded \/ r.err = OK)
            /\ written' = <<>>
            /\ df_forecast' = NoOut
            /\ UNCHANGED <<hparams, hyper, train_date, files>>

\* -------------------------------------------------------------- evaluate
\* the prediction range, mutated: one position too many
predict_range_one_past(train_set, test_set) ==
    [start |-> train_set.rows, end |-> train_set.rows + test_set.rows]

\* start and end of the call of predict
predict_range(train_set, test_set) ==
    [start |-> train_set.rows, end |-> train_set.rows + test_set.rows - 1]

\* train_set.append(test_set): the training rows with their fitted values,
\* then the test rows with their forecasts; a row of the training frame the
\* fitted series does not reach, and a column a frame lacks, hold NaN
combined(mdl, train_set, predictions) ==
    [i \in 1..train_set.rows |->
        [part |-> "train",
         model |-> IF i <= mdl.nobs THEN fittedvalues(mdl)[i] ELSE NaN,
         forecast |-> NaN]]
    \o [k \in 1..Len(predictions) |->
        [part |-> "test", model |-> NaN, forecast |-> predictions[k]]]

\* the base strategy's evaluate_forecast(df_forecast, save_dir): the
\* metrics it computes over the frame
evaluate_forecast(df) == [kind |-> "metrics", scored |-> Len(df)]

\* evaluate(train_set, test_set): the exception raised, the frame handed to
\* evaluate_forecast, the value returned
evaluate_call(train_set, test_set) ==
    IF ~train_set.hasDate \/ ~test_set.hasDate   \* set_index('ds')
    THEN [err |-> "KeyError", df |-> NoOut, out |-> NoOut]
    ELSE IF model.kind = "None"                  \* None.fittedvalues
    THEN [err |-> "AttributeError", df |-> NoOut, out |-> NoOut]
    ELSE LET r == predict_range(train_set, test_set) IN
         IF r.end < r.start
         THEN [err |-> "ValueError", df |-> NoOut, out |-> NoOut]
         ELSE LET df == combined(model, train_set,
                                 predict(model, r.start, r.end)) IN
              [err |-> OK, df |-> [kind |-> "frame", rows |-> df],
               out |-> evaluate_forecast(df)]

Evaluate ==
    \E train_set \in TrainSets, test_set \in TestSets :
        LET r == evaluate_call(train_set, test_set) IN
        /\ op' = "evaluate"
        /\ args' = [train_set |-> train_set, test_set |-> test_set]
        /\ err' = r.err
        /\ out' = r.out
        /\ df_forecast' = r.df
        /\ written' = <<>>
        /\ UNCHANGED <<hparams, hyper, train_date, model, files,
                       fit_succeeded>>

\* -------------------------------------------------------------- forecast
\* forecast, mutated: the horizon grows when recent data is passed
forecast_call_reads_recent(days, recent_data) ==
    IF model.kind = "None"
    THEN [err |-> "AttributeError", out |-> NoOut]
    ELSE [err |-> OK,
          out |-> [kind |-> "predictions",
                   values |-> results_forecast(model,
                       IF recent_data = "None" THEN days ELSE days + 1)]]

\* forecast, mutated: an empty prediction when nothing is fitted
forecast_call_empty_when_unfitted(days, recent_data) ==
    IF model.kind = "None"
    THEN [err |-> OK, out |-> [kind |-> "predictions", values |-> <<>>]]
    ELSE [err |-> OK,
          out |-> [kind |-> "predictions",
                   values |-> results_forecast(model, days)]]

\* forecast(days, recent_data): self.model.forecast(steps=days)
forecast_call(days, recent_data) ==
    IF model.kind = "None"                       \* None.forecast
    THEN [err |-> "AttributeError", out |-> NoOut]
    ELSE [err |-> OK,
          out |-> [kind |-> "predictions",
                   values |-> results_forecast(model, days)]]

Forecast ==
    \E days \in 1..MaxDays, recent_data \in RecentData :
        LET r == forecast_call(days, recent_data) IN
        /\ op' = "forecast"
        /\ args' = [days |-> days, recent_data |-> recent_data]
        /\ err' = r.err
        /\ out' = r.out
        /\ written' = <<>>
        /\ df_forecast' = NoOut
        /\ UNCHANGED <<hparams, hyper, train_date, model, files,
                       fit_succeeded>>

\* ------------------------------------------------------------ save_model
\* the file name, mutated: the training date left out
model_path_without_date(save_dir) == path_join(save_dir, name \o PKL)

\* os.path.join(save_dir, self.name + self.train_date + '.pkl')
model_path(save_dir) == path_join(save_dir, name \o train_date \o PKL)

\* save_model, mutated: the test of self.model left out
save_model_unguarded(save_dir) == <<model_path(save_dir)>>

\* save_model(save_dir): the paths self.model.save is called with
save_model_call(save_dir) ==
    IF truthy(model) THEN <<model_path(save_dir)>> ELSE <<>>

SaveModel ==
    \E save_dir \in SaveDirs :
        LET w == save_model_call(save_dir) IN
        /\ op' = "save_model"
        /\ args' = [save_dir |-> save_dir]
        /\ err' = OK
        /\ out' = NoOut
        /\ written' = w
        /\ files' = files \cup {w[i] : i \in 1..Len(w)}
        /\ df_forecast' = NoOut
        /\ UNCHANGED <<hparams, hyper, train_date, model, fit_succeeded>>

Next == Fit \/ Evaluate \/ Forecast \/ SaveModel

Spec == Init /\ [][Next]_vars

\* ============================================================ properties
\* what the constructor should have resolved key to, read off the dict
Resolved(key, default) ==
    IF key \in DOMAIN hparams THEN hparams[key] ELSE default

\* the file name save_model is to use
FileName == name \o train_date \o PKL

\* path names the file fn, directly inside the directory dir
DirectlyUnder(path, dir, fn) ==
    LET gap == Len(path) - Len(fn) - Len(dir) IN
    /\ gap \in {0, 1}
    /\ SubSeq(path, 1, Len(dir)) = dir
    /\ SubSeq(path, Len(path) - Len(fn) + 1, Len(path)) = fn
    /\ path[Len(path) - Len(fn)] = SEP
    /\ \A i \in 1..Len(fn) : fn[i] # SEP

\* C1: a fit on a dataset whose column count is not 2 raises the
\* input-shape exception and leaves self.model as it was before the call.
C1_ShapeErrorKeepsModel ==
    [][(op' = "fit" /\ args'.dataset.cols # 2)
          => (err' = "InputShapeException" /\ model' = model)]_vars

C1_Witness ==
    /\ op = "fit"
    /\ args.dataset.cols > 2
    /\ err = "InputShapeException"
    /\ truthy(model)

\* C2: while no fit has succeeded, evaluate and forecast raise and return
\* nothing; the exception is the AttributeError of reading the absent
\* model (evaluate on frames without a date column raises KeyError first).
C2_UnfittedCallsFail ==
    (~fit_succeeded /\ op \in {"evaluate", "forecast"}) =>
        /\ err # OK
        /\ out = NoOut
        /\ df_forecast = NoOut
        /\ op = "forecast" => err = "AttributeError"
        /\ (op = "evaluate" /\ args.train_set.hasDate /\ args.test_set.hasDate)
              => err = "AttributeError"

C2_Witness ==
    /\ ~fit_succeeded
    /\ op = "forecast"
    /\ err = "AttributeError"
    /\ files = {}

\* C3: while no fit has succeeded, save_model writes nothing and raises
\* nothing, whatever the directory.
C3_SaveUnfittedIsNoOp ==
    ~fit_succeeded =>
        /\ files = {}
        /\ op = "save_model" => (err = OK /\ written = <<>>)

C3_Witness ==
    /\ ~fit_succeeded
    /\ op = "save_model"
    /\ args.save_dir = <<SEP, "tmp", SEP, "m">>

\* C4: a fit that succeeds with automatic order selection off gave the
\* estimator the orders (TREND_P, TREND_D, TREND_Q) and (SEASONAL_P,
\* SEASONAL_D, SEASONAL_Q, M) as the constructor resolved them.
C4_ExplicitOrdersUsed ==
    (op = "fit" /\ err = OK /\ Resolved("AUTO_PARAMS", FALSE) = FALSE) =>
        /\ model.order = <<Resolved("TREND_P", 10), Resolved("TREND_D", 2),
                           Resolved("TREND_Q", 0)>>
        /\ model.seasonal_order =
               <<Resolved("SEASONAL_P", 5), Resolved("SEASONAL_D", 2),
                 Resolved("SEASONAL_Q", 0), Resolved("M", 12)>>

C4_Witness ==
    /\ op = "fit"
    /\ err = OK
    /\ DOMAIN hparams = {"TREND_D"}
    /\ model.order = <<10, 0, 0>>
    /\ files # {}

\* C5: once a fit has succeeded, forecast(days, recent_data) returns exactly
\* days values, the ones forecast(days) without recent data returns.
C5_ForecastLength ==
    (fit_succeeded /\ op = "forecast") =>
        /\ err = OK
        /\ out.kind = "predictions"
        /\ Len(out.values) = args.days
        /\ out = forecast_call(args.days, "None").out

C5_Witness ==
    /\ fit_succeeded
    /\ op = "forecast"
    /\ args.recent_data # "None"
    /\ args.days = MaxDays
    /\ Len(out.values) = MaxDays

C7_SaveWritesOneNamedFile ==
    (fit_succeeded /\ op = "save_model") =>
        /\ err = OK
        /\ Len(written) = 1
        /\ DirectlyUnder(written[1], args.save_dir, FileName)
        /\ FileName = <<"SARIMA">> \o train_date \o <<".pkl">>
        /\ written[1] \in files

C7_Witness ==
    /\ fit_succeeded
    /\ op = "save_model"
    /\ train_date # <<>>
    /\ args.save_dir = <<"out">>
    /\ written = <<(<<"out", SEP, "SARIMA">> \o train_date \o <<".pkl">>)>>

\* C8: construction resolves every absent key to its default, keeps every
\* present key at the value given, and leaves no fitted model.
C8_ConstructionResolves ==
    /\ auto_params = Resolved("AUTO_PARAMS", FALSE)
    /\ trend_p = Resolved("TREND_P", 10)
    /\ trend_d = Resolved("TREND_D", 2)
    /\ trend_q = Resolved("TREND_Q", 0)
    /\ seasonal_p = Resolved("SEASONAL_P", 5)
    /\ seasonal_d = Resolved("SEASONAL_D", 2)
    /\ seasonal_q = Resolved("SEASONAL_Q", 0)
    /\ m = Resolved("M", 12)
    /\ op = "__init__" => (model = NoModel /\ ~fit_succeeded)

C8_Witness ==
    /\ op = "__init__"
    /\ DOMAIN hparams = {"M"}
    /\ m = 7
    /\ trend_p = 10
    /\ auto_params = FALSE

\* C9: self.model is absent exactly until the first fit succeeds; only a
\* successful fit changes it, to the handle fitted on that call's series;
\* no call changes the resolved hyperparameters.
C9_HandleLifecycle ==
    /\ [](fit_succeeded <=> model # NoModel)
    /\ [][/\ model' # model => (op' = "fit" /\ err' = OK)
          /\ (op' = "fit" /\ err' = OK) =>
                (truthy(model') /\ model'.nobs = args'.dataset.rows)
          /\ (op' # "fit" \/ err' # OK) => model' = model
          /\ hyper' = hyper
          /\ hparams' = hparams]_vars

C9_Witness ==
    /\ op = "fit"
    /\ err = "EstimatorError"
    /\ truthy(model)
    /\ model.nobs # args.dataset.rows

\* C10 as stated: with AUTO_PARAMS on, a fit on a two-column dataset ends
\* with a model fitted with the orders the automatic search returned.
C10_AutoFitEndsFitted ==
    (op = "fit" /\ auto_params /\ args.dataset.cols = 2
       /\ args.dataset.hasDate) =>
        /\ err = OK
        /\ truthy(model)
        /\ \E b \in BestModels :
              /\ model.order = b.order
              /\ model.seasonal_order = b.seasonal_order

====
